---- MODULE Spec2Model ----
(***************************************************************************)
(* KumoHax backend: the in-memory patient store, the KumoRFM prediction    *)
(* client (predictRisk / batchPredict with mock fallback), the CSV upload  *)
(* handler and the runtime credential endpoints.                           *)
(*                                                                         *)
(* Node runs the handlers on one event loop.  An action of this model is   *)
(* one turn of that loop: a handler (or the continuation of one) runs      *)
(* from the event that wakes it (request arrival, response of the external *)
(* service, timer) up to the next point where it waits for such an event.  *)
(* Awaiting an already settled promise does not let another request in, so *)
(* it does not end the action.                                             *)
(***************************************************************************)
EXTENDS Integers, Sequences, FiniteSets, TLC

\* ------------------------------------------------------------------ bounds
NumLookups == 2      \* GET /api/patients/:id/risk requests in a run
NumUploads == 2      \* POST /api/data/upload-csv requests in a run
NumBatches == 1      \* batchPredict calls in a run
BatchUploads == 1    \* uploads served while batchPredict calls run
MaxConfigures == 2   \* POST /api/kumorfm/configure requests in a run
NumClients == 2      \* GET /api/events/alerts connections in a run
MaxEvents == 2       \* timer firings (heartbeat, alert) per connection in a run
MaxServed == 2       \* requests of all endpoints together in a run
MaxPredictions == 60 \* prediction counts the risk distribution is computed for
MaxAdds == 202       \* addAlert calls on the alerts store in a run
MaxSseAlerts == 12   \* alerts the dashboard receives over SSE in a run
MaxFetches == 3      \* dashboard data fetches in a run
MaxRequests == 3     \* GET /patients requests of the Patients page in a run

\* ------------------------------------------------------- program constants
batchSize == 5       \* kumoRFMService.ts:105
Scale == 10000       \* fixed-point unit: the number x (a score, Math.random()) is held as x * Scale
LabUnit == 10        \* a lab result or vital sign x is held as x * LabUnit
AlertsKept == 200    \* alerts.ts:12, slice(0, 200)
RecentKept == 9      \* DashboardPage, prev.slice(0, 9)

\* -------------------------------------------------------------- JS values
\* A JavaScript value: t is its typeof (or "NaN", "null", "array"), s the text
\* of a string as a sequence of tokens ("," and " " are tokens of their own, a
\* word is one token), n the value of a number, a the elements of an array.
Undef == [t |-> "undefined", s |-> <<>>, n |-> 0, a |-> <<>>]
Null == [t |-> "null", s |-> <<>>, n |-> 0, a |-> <<>>]
NaN == [t |-> "NaN", s |-> <<>>, n |-> 0, a |-> <<>>]
Str(text) == [t |-> "string", s |-> text, n |-> 0, a |-> <<>>]
Num(k) == [t |-> "number", s |-> <<>>, n |-> k, a |-> <<>>]
Arr(elems) == [t |-> "array", s |-> <<>>, n |-> 0, a |-> elems]

\* ToBoolean: what `!!v`, `v || d`, `v && x`, `v ? x : y` test.
Truthy(v) ==
  CASE v.t = "undefined" -> FALSE
    [] v.t = "null" -> FALSE
    [] v.t = "NaN" -> FALSE
    [] v.t = "string" -> v.s # <<>>
    [] v.t = "number" -> v.n # 0
    [] OTHER -> TRUE

\* a || b
Or(a, b) == IF Truthy(a) THEN a ELSE b

\* ---------------------------------------------------------- patient store
SeedPatients ==
  << [id |-> Str(<<"P-1001">>), age |-> Num(72), sex |-> Str(<<"F">>), race |-> Str(<<"White">>),
      medications |-> << <<"metformin">>, <<"lisinopril">>, <<"atorvastatin">> >>,
      comorbidities |-> << <<"diabetes">>, <<"hypertension">>, <<"hyperlipidemia">> >>,
      labResults |-> [creatinine |-> Num(12), alt |-> Num(450), ast |-> Num(380)],
      vitalSigns |-> [bp_systolic |-> Num(1450), bp_diastolic |-> Num(920), heart_rate |-> Num(780)]],
     [id |-> Str(<<"P-1002">>), age |-> Num(28), sex |-> Str(<<"M">>), race |-> Str(<<"Asian">>),
      medications |-> << <<"fluoxetine">>, <<"ibuprofen">> >>,
      comorbidities |-> << <<"depression">> >>,
      labResults |-> [creatinine |-> Num(9), alt |-> Num(220), ast |-> Num(250)],
      vitalSigns |-> [bp_systolic |-> Num(1200), bp_diastolic |-> Num(750), heart_rate |-> Num(680)]],
     [id |-> Str(<<"P-1003">>), age |-> Num(55), sex |-> Str(<<"M">>), race |-> Str(<<"Black">>),
      medications |-> << <<"warfarin">>, <<"metoprolol">>, <<"furosemide">> >>,
      comorbidities |-> << <<"atrial_fibrillation">>, <<"heart_failure">> >>,
      labResults |-> [creatinine |-> Num(18), alt |-> Num(550), ast |-> Num(480), inr |-> Num(23)],
      vitalSigns |-> [bp_systolic |-> Num(1100), bp_diastolic |-> Num(650), heart_rate |-> Num(550)]] >>

VARIABLES
  envApiKey,   \* process.env.KUMORFM_API_KEY (Undef when unset, else a string)
  apiKey,      \* KumoRFMService.apiKey, read from the environment at construction
  statusResp,  \* configured flag of the last /api/kumorfm answers, "none" before
  configures,  \* number of POST /api/kumorfm/configure requests served
  patients,    \* the in-memory patient store
  origin,      \* origin[k]: the request that appended patients[k] (0: seed)
  net,         \* requests to the external service that are in flight
  lk,          \* GET /api/patients/:id/risk requests
  up,          \* POST /api/data/upload-csv requests
  bp,          \* batchPredict calls
  nanoids,     \* number of ids nanoid(8) has generated
  sse,         \* GET /api/events/alerts connections
  alertsStore, \* frontend: useAlertsStore
  dashboard,   \* frontend: the state of DashboardPage and its requests
  patientsPage \* frontend: the state of PatientsPage and its requests

\* The state of the backend process and of the browser.
backend == <<envApiKey, apiKey, statusResp, configures, patients, origin, net, lk, up, bp, nanoids, sse>>
frontend == <<alertsStore, dashboard, patientsPage>>

vars == <<envApiKey, apiKey, statusResp, configures, patients, origin, net, lk, up, bp, nanoids, sse,
          alertsStore, dashboard, patientsPage>>

Lookups == 1..NumLookups
Uploads == 1..NumUploads
Batches == 1..NumBatches
Clients == 1..NumClients

\* ------------------------------------------------------ prediction client
\* A promise of a RiskPrediction.
NoPrediction ==
  [patientId |-> Undef, riskScore |-> Undef, predictedEvents |-> Undef,
   riskFactors |-> Undef, lastUpdated |-> Undef]
Pending == [state |-> "pending", value |-> NoPrediction]
Fulfilled(v) == [state |-> "fulfilled", value |-> v]
Rejected == [state |-> "rejected", value |-> NoPrediction]

possibleEvents ==
  <<"Hepatotoxicity", "Cardiac Arrhythmia", "Renal Function Decline", "GI Bleeding",
    "Hypoglycemia", "Hyperkalemia", "Drug Interaction">>

MockRiskFactors ==
  << [factor |-> "Age", impact |-> 3000, confidence |-> 9000],
     [factor |-> "Medication Interactions", impact |-> 2500, confidence |-> 8500],
     [factor |-> "Comorbidities", impact |-> 2000, confidence |-> 8000] >>

\* The orders `possibleEvents.sort(() => Math.random() - 0.5)` is sampled at.
Shuffles ==
  { possibleEvents,
    [k \in 1..Len(possibleEvents) |-> possibleEvents[Len(possibleEvents) + 1 - k]] }

\* What one getMockRiskPrediction call draws: r1 and r2 are the two values of
\* Math.random() (in [0, 1), times Scale), order the outcome of the shuffle.
MockDraws ==
  { [r1 |-> 0, order |-> possibleEvents, r2 |-> 0],
    [r1 |-> Scale - 1, order |-> CHOOSE o \in Shuffles : o # possibleEvents, r2 |-> Scale - 1] }

getMockRiskPrediction(patientId, d) ==
  [patientId |-> patientId,
   riskScore |-> Num((d.r1 * 7) \div 10 + Scale \div 10),
   predictedEvents |-> Arr(SubSeq(d.order, 1, (d.r2 * 3) \div Scale + 1)),
   riskFactors |-> Arr(MockRiskFactors),
   lastUpdated |-> Str(<<"now">>)]

\* The bodies of a 2xx answer of POST /predict the model draws from; isNull is
\* a body that is the JSON value null.
Responses ==
  { [isNull |-> FALSE, risk_score |-> Num(Scale \div 2),
     predicted_events |-> Arr(<<"Hepatotoxicity">>),
     risk_factors |-> Arr(<< [factor |-> "Age", impact |-> 4000, confidence |-> 9000] >>)],
    [isNull |-> FALSE, risk_score |-> Num(Scale + Scale \div 2),
     predicted_events |-> Undef, risk_factors |-> Undef],
    [isNull |-> FALSE, risk_score |-> Undef, predicted_events |-> Undef, risk_factors |-> Undef],
    [isNull |-> TRUE, risk_score |-> Undef, predicted_events |-> Undef, risk_factors |-> Undef] }

\* How a call of the external service ends: axios resolves on a 2xx answer and
\* rejects on a timeout, on any other status and on a network error.
Outcomes ==
  [kind : {"ok"}, data : Responses]
    \cup [kind : {"timeout", "http", "network"},
          data : {r \in Responses : r.isNull}]

\* predictRisk without the test of the key at lines 59-62.
predictRiskNoKeyTest(patientProfile, d) == Pending

\* predictRisk up to its first await: without a key the mock prediction, with
\* a key the request is sent and the promise is pending.
predictRisk(patientProfile, d) ==
  IF ~Truthy(apiKey)
    THEN Fulfilled(getMockRiskPrediction(patientProfile.id, d))
    ELSE Pending

\* predictRisk without the catch block at lines 93-98.
predictRiskNoCatch(patientProfile, o, d) ==
  IF o.kind = "ok" /\ ~o.data.isNull
    THEN Fulfilled([patientId |-> patientProfile.id,
                    riskScore |-> Or(o.data.risk_score, Num(0)),
                    predictedEvents |-> Or(o.data.predicted_events, Arr(<<>>)),
                    riskFactors |-> Or(o.data.risk_factors, Arr(<<>>)),
                    lastUpdated |-> Str(<<"now">>)])
    ELSE Rejected

\* predictRisk from the end of `await this.client.post(...)`: the mapping of a
\* 2xx answer; reading a field of a null body throws, and so does a rejected
\* post; the catch block turns both into the mock prediction.
predictRiskSettled(patientProfile, o, d) ==
  IF o.kind = "ok" /\ ~o.data.isNull
    THEN Fulfilled([patientId |-> patientProfile.id,
                    riskScore |-> Or(o.data.risk_score, Num(0)),
                    predictedEvents |-> Or(o.data.predicted_events, Arr(<<>>)),
                    riskFactors |-> Or(o.data.risk_factors, Arr(<<>>)),
                    lastUpdated |-> Str(<<"now">>)])
    ELSE Fulfilled(getMockRiskPrediction(patientProfile.id, d))

\* A request in flight to the external service: who awaits it.
Request(kind, slot, j) == [owner |-> kind, slot |-> slot, j |-> j]

\* -------------------------------------------- GET /api/patients/:id/risk
NoPatient ==
  [id |-> Undef, age |-> Undef, sex |-> Undef, race |-> Undef,
   medications |-> <<>>, comorbidities |-> <<>>]

\* patients.find(p => p.id === id): the first match, else nothing.
find(store, id) ==
  IF \E k \in 1..Len(store) : store[k].id = id
    THEN store[CHOOSE k \in 1..Len(store) :
                 store[k].id = id /\ \A m \in 1..(k - 1) : store[m].id # id]
    ELSE NoPatient

LookupIds == {Str(<<"P-1001">>), Str(<<"P-001">>), Str(<<"P-404">>), Str(<<"123">>)}

\* outcome records how the awaited call of the external service ended.
LookupIdle ==
  [pc |-> "idle", id |-> Undef, patient |-> NoPatient, result |-> Pending, outcome |-> "none"]

riskHandler(s, id, d) ==
  LET patient == find(patients, id)
      p == predictRisk(patient, d)
  IN IF patient = NoPatient
       THEN /\ lk' = [lk EXCEPT ![s] = [@ EXCEPT !.pc = "404", !.id = id]]
            /\ net' = net
       ELSE /\ lk' = [lk EXCEPT ![s] =
                 [pc |-> CASE p.state = "pending" -> "await"
                           [] p.state = "fulfilled" -> "200"
                           [] OTHER -> "500",
                  id |-> id, patient |-> patient, result |-> p, outcome |-> "none"]]
            /\ net' = IF p.state = "pending" THEN net \cup {Request("lookup", s, 1)} ELSE net

LookupStart(s, id, d) ==
  /\ lk[s].pc = "idle"
  /\ riskHandler(s, id, d)
  /\ UNCHANGED <<envApiKey, apiKey, statusResp, configures, patients, origin, up, bp, nanoids, sse, frontend>>

LookupResponse(s, o, d) ==
  /\ lk[s].pc = "await"
  /\ Request("lookup", s, 1) \in net
  /\ LET p == predictRiskSettled(lk[s].patient, o, d)
     IN lk' = [lk EXCEPT ![s] = [@ EXCEPT !.result = p,
                                 !.outcome = IF o.kind = "ok" /\ o.data.isNull THEN "null body" ELSE o.kind,
                                 !.pc = IF p.state = "fulfilled" THEN "200" ELSE "500"]]
  /\ net' = net \ {Request("lookup", s, 1)}
  /\ UNCHANGED <<envApiKey, apiKey, statusResp, configures, patients, origin, up, bp, nanoids, sse, frontend>>

\* ------------------------------------------------ /api/kumorfm/configure
\* The apiKey values of a request body: absent, empty, a key.
ConfigureKeys == {Undef, Str(<<>>), Str(<<"sk-live">>)}

\* Assigning to a property of process.env stores String(value).
ToEnvString(v) ==
  CASE v.t = "undefined" -> Str(<<"undefined">>)
    [] v.t = "null" -> Str(<<"null">>)
    [] OTHER -> v

Configure(key) ==
  /\ configures < MaxConfigures
  /\ configures' = configures + 1
  /\ envApiKey' = ToEnvString(key)
  /\ statusResp' = [from |-> "configure", configured |-> Truthy(key)]
  /\ UNCHANGED <<apiKey, patients, origin, net, lk, up, bp, nanoids, sse, frontend>>

Status ==
  /\ statusResp' = [from |-> "status", configured |-> Truthy(envApiKey)]
  /\ statusResp' # statusResp
  /\ UNCHANGED <<envApiKey, apiKey, configures, patients, origin, net, lk, up, bp, nanoids, sse, frontend>>

\* GET /api/health: kumoRFM is 'connected' or 'not_configured'.
Health ==
  /\ statusResp' = [from |-> "health", configured |-> Truthy(envApiKey)]
  /\ statusResp' # statusResp
  /\ UNCHANGED <<envApiKey, apiKey, configures, patients, origin, net, lk, up, bp, nanoids, sse, frontend>>

\* ------------------------------------------- POST /api/data/upload-csv
\* The numerals the uploaded files use, with their values.
NumeralValue == ("0" :> 0) @@ ("45" :> 45) @@ ("65" :> 65) @@ ("123" :> 123) @@ ("007" :> 7)

isFloat(text) == Len(text) = 1 /\ text[1] \in DOMAIN NumeralValue

\* csv-parse with `cast: true`: a cell that reads as a number becomes that
\* number, every other cell stays the string it is.
cast(cell) ==
  IF cell.t = "string" /\ isFloat(cell.s) THEN Num(NumeralValue[cell.s[1]]) ELSE cell

\* String.prototype.trim on a token text.
RECURSIVE trimStart(_)
trimStart(text) ==
  IF text # <<>> /\ Head(text) = " " THEN trimStart(Tail(text)) ELSE text

RECURSIVE trimEnd(_)
trimEnd(text) ==
  IF text # <<>> /\ text[Len(text)] = " "
    THEN trimEnd(SubSeq(text, 1, Len(text) - 1)) ELSE text

trim(text) == trimEnd(trimStart(text))

\* String.prototype.split(',')
RECURSIVE split(_, _)
split(text, sep) ==
  IF \E k \in 1..Len(text) : text[k] = sep
    THEN LET k == CHOOSE c \in 1..Len(text) :
                    text[c] = sep /\ \A m \in 1..(c - 1) : text[m] # sep
         IN <<SubSeq(text, 1, k - 1)>> \o split(SubSeq(text, k + 1, Len(text)), sep)
    ELSE <<text>>

\* Number(v)
ToNumber(v) ==
  CASE v.t = "number" -> v
    [] v.t = "null" -> Num(0)
    [] v.t = "string" /\ trim(v.s) = <<>> -> Num(0)
    [] v.t = "string" /\ isFloat(trim(v.s)) -> Num(NumeralValue[trim(v.s)[1]])
    [] OTHER -> NaN

\* `P-${nanoid(8)}` for the k-th generated id.
nanoid(k) == Str(<<"P-", "nanoid", ToString(k)>>)

\* `cell ? cell.split(',').map(x => x.trim()) : []`; a truthy cell that is no
\* string (a number after the cast) has no split method: TypeError.
splitThrows(cell) == Truthy(cell) /\ cell.t # "string"
splitList(cell) ==
  IF Truthy(cell) /\ cell.t = "string"
    THEN LET parts == split(cell.s, ",") IN [k \in 1..Len(parts) |-> trim(parts[k])]
    ELSE <<>>

\* The columns the handler reads into labResults and into vitalSigns.
LabKeys == {"creatinine", "alt", "ast", "hemoglobin"}
VitalKeys == {"bp_systolic", "bp_diastolic", "heart_rate"}

\* `...(cell && { key: Number(cell) })` for the columns of keys: spreading a
\* falsy value adds nothing, a truthy cell adds its key.
spreadCells(record, keys) ==
  [key \in {c \in keys : Truthy(record[c])} |->
     LET v == ToNumber(record[key])
     IN IF v.t = "number" THEN Num(v.n * LabUnit) ELSE v]

\* The body of the per-record try block up to the predictRisk call: the
\* profile of the record, or the exception thrown while building it.
rowProfile(record, generated) ==
  [threw |-> splitThrows(record.medications) \/ splitThrows(record.comorbidities),
   usedNanoid |-> ~Truthy(record.patient_id),
   profile |-> [id |-> Or(record.patient_id, nanoid(generated + 1)),
                age |-> ToNumber(record.age),
                sex |-> record.sex,
                race |-> Or(record.race, Str(<<"Unknown">>)),
                medications |-> splitList(record.medications),
                comorbidities |-> splitList(record.comorbidities),
                labResults |-> spreadCells(record, LabKeys),
                vitalSigns |-> spreadCells(record, VitalKeys)]]

\* A row of a file without lab, vital-sign, race and study_group columns.
Row(id, age, sex, meds, comorb) ==
  [patient_id |-> id, age |-> age, sex |-> sex, race |-> Undef,
   medications |-> meds, comorbidities |-> comorb, study_group |-> Undef]
    @@ [c \in LabKeys \cup VitalKeys |-> Undef]

\* A row of a file that has the lab and vital-sign columns.
LabRow(row, cells) == [c \in DOMAIN row |-> IF c \in DOMAIN cells THEN cells[c] ELSE row[c]]

\* The uploaded files the model draws from (the cells as written in the file).
FileValid ==
  [parses |-> TRUE,
   rows |-> << Row(Str(<<"P-001">>), Str(<<"65">>), Str(<<"M">>),
                   Str(<<"metformin", ",", "lisinopril">>), Str(<<"diabetes">>)),
               Row(Str(<<>>), Str(<<"45">>), Str(<<"F">>),
                   Str(<<" ", "warfarin", " ", ",", " ", "aspirin">>), Str(<<>>)),
               Row(Str(<<"P-001">>), Str(<<"45">>), Str(<<"F">>), Str(<<>>), Str(<<>>)) >>]
FileMixed ==
  [parses |-> TRUE,
   rows |-> << Row(Str(<<"P-002">>), Str(<<"abc">>), Str(<<"F">>), Str(<<"aspirin">>), Str(<<>>)),
               Row(Str(<<"P-003">>), Str(<<"45">>), Str(<<"M">>), Str(<<"123">>), Str(<<>>)),
               Row(Str(<<"P-1001">>), Str(<<"65">>), Str(<<"F">>), Str(<<"metformin">>), Str(<<"0">>)) >>]
FileLabs ==
  [parses |-> TRUE,
   rows |-> << LabRow(Row(Str(<<"123">>), Str(<<"65">>), Str(<<"M">>),
                          Str(<<"aspirin", ",", " ", "warfarin", " ", ",", "metformin">>),
                          Str(<<"heart", " ", "failure">>)),
                      [creatinine |-> Str(<<"45">>), alt |-> Str(<<"0">>), ast |-> Str(<<>>),
                       hemoglobin |-> Str(<<"abc">>), bp_systolic |-> Str(<<"123">>),
                       bp_diastolic |-> Str(<<"0">>), heart_rate |-> Str(<<>>)]),
               LabRow(Row(Str(<<"007">>), Str(<<"45">>), Str(<<"F">>), Str(<<>>), Str(<<>>)),
                      [creatinine |-> Str(<<>>), alt |-> Str(<<"45">>), ast |-> Str(<<"0">>),
                       hemoglobin |-> Str(<<>>), bp_systolic |-> Str(<<>>),
                       bp_diastolic |-> Str(<<"65">>), heart_rate |-> Str(<<"65">>)]) >>]
FileHeaderOnly == [parses |-> TRUE, rows |-> <<>>]
FileUnparsable == [parses |-> FALSE, rows |-> <<>>]
Files == <<FileValid, FileMixed, FileLabs, FileHeaderOnly, FileUnparsable>>
NoFile == 0

\* parse(fileContent, {columns: true, skip_empty_lines: true, cast: true})
parse(file) ==
  [k \in 1..Len(file.rows) |->
     [c \in DOMAIN file.rows[k] |-> cast(file.rows[k][c])]]

UploadIdle ==
  [pc |-> "idle", file |-> NoFile, tmpFile |-> FALSE, records |-> <<>>, k |-> 0,
   profile |-> NoPatient, processed |-> 0, predictions |-> <<>>, errors |-> <<>>]

\* The handler's view of what it changes: its own request and the globals.
UploadState(u) == [r |-> up[u], patients |-> patients, origin |-> origin, nanoids |-> nanoids]

\* afterPredict with patients.unshift in place of patients.push.
afterPredictUnshift(u, st, p) ==
  LET record == st.r.records[st.r.k]
  IN IF p.state = "fulfilled"
       THEN [st EXCEPT
               !.r.predictions = Append(@, [studyGroup |-> Or(record.study_group, Str(<<"default">>)),
                                            originalData |-> record] @@ p.value),
               !.r.processed = @ + 1,
               !.patients = <<st.r.profile>> \o @,
               !.origin = <<u>> \o @]
       ELSE [st EXCEPT
               !.r.errors = Append(@, [patient_id |-> record.patient_id, message |-> "rejected"])]

\* afterPredict with a store keyed by id: a profile whose id is stored
\* already replaces the stored one.
afterPredictUpsert(u, st, p) ==
  LET record == st.r.records[st.r.k]
      stored == {k \in 1..Len(st.patients) : st.patients[k].id = st.r.profile.id}
  IN IF p.state = "fulfilled"
       THEN [st EXCEPT
               !.r.predictions = Append(@, [studyGroup |-> Or(record.study_group, Str(<<"default">>)),
                                            originalData |-> record] @@ p.value),
               !.r.processed = @ + 1,
               !.patients = IF stored = {} THEN Append(@, st.r.profile)
                            ELSE [k \in 1..Len(@) |-> IF k \in stored THEN st.r.profile ELSE @[k]],
               !.origin = IF stored = {} THEN Append(@, u) ELSE @]
       ELSE [st EXCEPT
               !.r.errors = Append(@, [patient_id |-> record.patient_id, message |-> "rejected"])]

\* Lines 137-146, or the catch at 148-151 when the awaited promise rejected.
afterPredict(u, st, p) ==
  LET record == st.r.records[st.r.k]
  IN IF p.state = "fulfilled"
       THEN [st EXCEPT
               !.r.predictions = Append(@, [studyGroup |-> Or(record.study_group, Str(<<"default">>)),
                                            originalData |-> record] @@ p.value),
               !.r.processed = @ + 1,
               !.patients = Append(@, st.r.profile),
               !.origin = Append(@, u)]
       ELSE [st EXCEPT
               !.r.errors = Append(@, [patient_id |-> record.patient_id, message |-> "rejected"])]

RECURSIVE uploadLoop(_, _, _)

\* The loop with one try/catch around all of it: the first record that throws
\* ends the request with a 500.
uploadLoopAbort(u, st, ds) ==
  LET k == st.r.k + 1
  IN IF k > Len(st.r.records)
       THEN [st EXCEPT !.r.pc = "200", !.r.tmpFile = FALSE, !.r.profile = NoPatient]
       ELSE LET b == rowProfile(st.r.records[k], st.nanoids)
                s1 == [st EXCEPT !.r.k = k,
                                 !.nanoids = IF b.usedNanoid THEN @ + 1 ELSE @]
            IN IF b.threw
                 THEN [s1 EXCEPT !.r.pc = "500", !.r.profile = NoPatient]
                 ELSE LET p == predictRisk(b.profile, ds[k])
                          s2 == [s1 EXCEPT !.r.profile = b.profile]
                      IN IF p.state = "pending"
                           THEN [s2 EXCEPT !.r.pc = "await"]
                           ELSE uploadLoop(u, afterPredict(u, s2, p), ds)

\* The loop with a catch block that records nothing.
uploadLoopSwallow(u, st, ds) ==
  LET k == st.r.k + 1
  IN IF k > Len(st.r.records)
       THEN [st EXCEPT !.r.pc = "200", !.r.tmpFile = FALSE, !.r.profile = NoPatient]
       ELSE LET b == rowProfile(st.r.records[k], st.nanoids)
                s1 == [st EXCEPT !.r.k = k,
                                 !.nanoids = IF b.usedNanoid THEN @ + 1 ELSE @]
            IN IF b.threw
                 THEN uploadLoop(u, s1, ds)
                 ELSE LET p == predictRisk(b.profile, ds[k])
                          s2 == [s1 EXCEPT !.r.profile = b.profile]
                      IN IF p.state = "pending"
                           THEN [s2 EXCEPT !.r.pc = "await"]
                           ELSE uploadLoop(u, afterPredict(u, s2, p), ds)

\* The `for (const record of records)` loop from record st.r.k + 1 on, up to
\* the first predictRisk call that has to wait for the external service, or
\* to the end of the handler (unlinkSync, res.json).
uploadLoop(u, st, ds) ==
  LET k == st.r.k + 1
  IN IF k > Len(st.r.records)
       THEN [st EXCEPT !.r.pc = "200", !.r.tmpFile = FALSE, !.r.profile = NoPatient]
       ELSE LET b == rowProfile(st.r.records[k], st.nanoids)
                s1 == [st EXCEPT !.r.k = k,
                                 !.nanoids = IF b.usedNanoid THEN @ + 1 ELSE @]
            IN IF b.threw
                 THEN uploadLoop(u, [s1 EXCEPT !.r.errors =
                        Append(@, [patient_id |-> st.r.records[k].patient_id,
                                   message |-> "TypeError"])], ds)
                 ELSE LET p == predictRisk(b.profile, ds[k])
                          s2 == [s1 EXCEPT !.r.profile = b.profile]
                      IN IF p.state = "pending"
                           THEN [s2 EXCEPT !.r.pc = "await"]
                           ELSE uploadLoop(u, afterPredict(u, s2, p), ds)

\* The draws of the (up to) n mock predictions of one turn of the event loop.
DrawSeqs(n) == [1..n -> MockDraws]

UploadCommit(u, st) ==
  /\ up' = [up EXCEPT ![u] = st.r]
  /\ patients' = st.patients
  /\ origin' = st.origin
  /\ nanoids' = st.nanoids
  /\ net' = IF st.r.pc = "await" THEN net \cup {Request("upload", u, st.r.k)} ELSE net

\* Request arrival: multer has stored the file under uploads/ when one came.
UploadStart(u, f, ds) ==
  /\ up[u].pc = "idle"
  /\ IF f = NoFile
       THEN /\ up' = [up EXCEPT ![u] = [@ EXCEPT !.pc = "400"]]
            /\ UNCHANGED <<patients, origin, nanoids, net>>
       ELSE IF ~Files[f].parses
         THEN /\ up' = [up EXCEPT ![u] = [@ EXCEPT !.pc = "500", !.file = f, !.tmpFile = TRUE]]
              /\ UNCHANGED <<patients, origin, nanoids, net>>
         ELSE UploadCommit(u, uploadLoop(u,
                [UploadState(u) EXCEPT !.r.file = f, !.r.tmpFile = TRUE,
                                       !.r.records = parse(Files[f])], ds))
  /\ UNCHANGED <<envApiKey, apiKey, statusResp, configures, lk, bp, sse, frontend>>

\* The external service answers the call the upload awaits.
UploadResponse(u, o, d, ds) ==
  /\ up[u].pc = "await"
  /\ Request("upload", u, up[u].k) \in net
  /\ LET p == predictRiskSettled(up[u].profile, o, d)
         st == uploadLoop(u, afterPredict(u, UploadState(u), p), ds)
     IN /\ up' = [up EXCEPT ![u] = st.r]
        /\ patients' = st.patients
        /\ origin' = st.origin
        /\ nanoids' = st.nanoids
        /\ net' = (net \ {Request("upload", u, up[u].k)})
                    \cup (IF st.r.pc = "await" THEN {Request("upload", u, st.r.k)} ELSE {})
  /\ UNCHANGED <<envApiKey, apiKey, statusResp, configures, lk, bp, sse, frontend>>

\* ------------------------------------------------------------ batchPredict
\* The filters of a POST /api/cohorts/analyze body.
Filter(ageMin, ageMax, sex, medications) ==
  [ageMin |-> ageMin, ageMax |-> ageMax, sex |-> sex, medications |-> medications]
NoFilters == Filter(Undef, Undef, Undef, Undef)

\* No answer sent yet.
NoAnswer == [status |-> 0]

\* A batchPredict call and the handler that made it: caller is the endpoint,
\* filters and totalPatients are locals of that handler, answer is what it sent;
\* chunks counts the chunks the call has started, delays the 200 ms waits it
\* has begun, madeFor[m] is the position in the array of the patient that
\* predictions[m] was computed for.
BatchIdle ==
  [pc |-> "idle", live |-> FALSE, input |-> <<>>, arg0 |-> <<>>, arg1 |-> <<>>, i |-> 0,
   batch |-> <<>>, results |-> <<>>, predictions |-> <<>>, chunks |-> 0, delays |-> 0,
   madeFor |-> <<>>,
   caller |-> "patients", filters |-> NoFilters, totalPatients |-> 0, answer |-> NoAnswer]

\* The array batchPredict was given: the store itself, or an array of the caller.
\* arg0 and arg1 record what that array held when the call started and when it
\* returned.
Argument(c, store) == IF c.live THEN store ELSE c.input

\* Array.prototype.slice(from, to), indexes from 0.
slice(array, from, to) ==
  SubSeq(array, from + 1, IF to < Len(array) THEN to ELSE Len(array))

\* Array.prototype.includes
includes(array, x) == \E k \in 1..Len(array) : array[k] = x

\* Array.prototype.filter: a new array, the elements that pass in their order.
filter(array, Test(_)) == SelectSeq(array, Test)

\* `.catch(error => this.getMockRiskPrediction(patient.id))` on one call.
batchCatch(p, patient, d) ==
  IF p.state = "rejected" THEN Fulfilled(getMockRiskPrediction(patient.id, d)) ELSE p

\* Promise.race in place of Promise.all: the first call that settles.
AnySettled(results) == \E j \in 1..Len(results) : results[j].state = "fulfilled"

\* `await Promise.all(batchPromises)` is over: every call of the chunk settled.
AllSettled(results) == \A j \in 1..Len(results) : results[j].state = "fulfilled"

\* afterChunk without the test at line 121: a delay after every chunk.
afterChunkAlwaysDelay(c, store) ==
  [c EXCEPT !.predictions = c.predictions \o [j \in 1..Len(c.results) |-> c.results[j].value],
            !.madeFor = @ \o [j \in 1..Len(c.results) |-> c.i + j],
            !.batch = <<>>, !.results = <<>>, !.pc = "delay", !.delays = @ + 1]

\* Lines 118-123 and the loop test after them: the chunk's results are pushed
\* in the order of the chunk; then the delay, or (nothing is awaited between
\* the two tests of the length) the end of the loop.
afterChunk(c, store) ==
  LET pushed == c.predictions \o [j \in 1..Len(c.results) |-> c.results[j].value]
      c1 == [c EXCEPT !.predictions = pushed, !.batch = <<>>, !.results = <<>>,
                      !.madeFor = @ \o [j \in 1..Len(c.results) |-> c.i + j]]
  IN IF c.i + batchSize < Len(Argument(c, store))
       THEN [c1 EXCEPT !.pc = "delay", !.delays = @ + 1]
       ELSE [c1 EXCEPT !.i = c.i + batchSize, !.pc = "done", !.arg1 = Argument(c, store)]

\* Lines 107-117 for the chunk at c.i: the loop test, the slice, one
\* predictRisk call per patient of the chunk, all started before any is awaited.
batchChunk(c, store, ds) ==
  IF ~(c.i < Len(Argument(c, store)))
    THEN [c EXCEPT !.pc = "done", !.arg1 = Argument(c, store)]
    ELSE LET batch == slice(Argument(c, store), c.i, c.i + batchSize)
             c1 == [c EXCEPT !.pc = "chunk", !.batch = batch, !.chunks = @ + 1,
                      !.results = [j \in 1..Len(batch) |->
                                     batchCatch(predictRisk(batch[j], ds[j]), batch[j], ds[j])]]
         IN IF AllSettled(c1.results) THEN afterChunk(c1, store) ELSE c1

\* predictions.reduce((sum, p) => sum + p.riskScore, 0)
RECURSIVE reduce(_)
reduce(predictions) ==
  IF predictions = <<>>
    THEN 0
    ELSE reduce(SubSeq(predictions, 1, Len(predictions) - 1))
           + predictions[Len(predictions)].riskScore.n

\* x / y on numbers: a number, or NaN for 0 / 0.
divide(x, y) == IF y = 0 THEN NaN ELSE Num(x \div y)

\* The mean with a reduce that has no initial value: a TypeError on [].
averageNoSeed(predictions) ==
  IF predictions = <<>>
    THEN [t |-> "TypeError", s |-> <<>>, n |-> 0, a |-> <<>>]
    ELSE divide(reduce(predictions), Len(predictions))

\* predictions.reduce(...) / predictions.length
average(predictions) == divide(reduce(predictions), Len(predictions))

\* The test with the threshold 0.8.
isHighRiskAbove8(p) == p.riskScore.t = "number" /\ p.riskScore.n > (8 * Scale) \div 10

\* p.riskScore > 0.7
isHighRisk(p) == p.riskScore.t = "number" /\ p.riskScore.n > (7 * Scale) \div 10

\* a >= b on JS values: false when one of them is NaN or undefined.
Ge(a, b) == a.t = "number" /\ b.t = "number" /\ a.n >= b.n

\* Lines 359-374 of POST /api/cohorts/analyze: every filter that is tested
\* truthy replaces filteredPatients by a new filtered array; when none is,
\* filteredPatients stays the store itself.
cohortPatients(store, filters) ==
  LET minTest(q) == Ge(q.age, filters.ageMin)
      maxTest(q) == Ge(filters.ageMax, q.age)
      sexTest(q) == q.sex = filters.sex
      medTest(q) == \E k \in 1..Len(filters.medications.a) :
                      includes(q.medications, filters.medications.a[k])
      byMeds == Truthy(filters.medications) /\ Len(filters.medications.a) > 0
      f1 == IF Truthy(filters.ageMin) THEN filter(store, minTest) ELSE store
      f2 == IF Truthy(filters.ageMax) THEN filter(f1, maxTest) ELSE f1
      f3 == IF Truthy(filters.sex) THEN filter(f2, sexTest) ELSE f2
      f4 == IF byMeds THEN filter(f3, medTest) ELSE f3
  IN [live |-> ~(Truthy(filters.ageMin) \/ Truthy(filters.ageMax)
                   \/ Truthy(filters.sex) \/ byMeds),
      array |-> f4]

\* Lines 377-388 of POST /api/cohorts/analyze, after batchPredict resolved.
cohortAnswer(c, store) ==
  LET averageRisk == average(c.predictions)
  IN IF averageRisk.t = "TypeError"
       THEN [status |-> 500]
       ELSE [status |-> 200,
             cohortSize |-> Len(Argument(c, store)),
             averageRisk |-> averageRisk,
             highRiskCount |-> Len(filter(c.predictions, isHighRisk)),
             predictions |-> c.predictions]

\* Lines 228-238 of GET /api/dashboard/metrics, after batchPredict resolved
\* (the three fields drawn from Math.random() are left out).
metricsAnswer(c) ==
  LET highRiskPatients == Len(filter(c.predictions, isHighRisk))
      averageRiskScore == average(c.predictions)
  IN IF averageRiskScore.t = "TypeError"
       THEN [status |-> 500]
       ELSE [status |-> 200,
             totalPatients |-> c.totalPatients * 947,
             highRiskPatients |-> highRiskPatients * 42,
             averageRiskScore |-> averageRiskScore]

\* Math.ceil in place of Math.floor.
ceilShare(totalPatients, permille) == (totalPatients * permille + 999) \div 1000

\* Math.floor(totalPatients * permille / 1000) for a proportion given in
\* thousandths (0.664, 0.291).
floorShare(totalPatients, permille) == (totalPatients * permille) \div 1000

\* Lines 269-279 of GET /api/dashboard/risk-distribution for a list of
\* `length` predictions.
riskDistribution(length) ==
  LET totalPatients == length * 947
      low == floorShare(totalPatients, 664)
      medium == floorShare(totalPatients, 291)
      high == totalPatients - low - medium
  IN [status |-> 200, totalPatients |-> totalPatients,
      low |-> low, medium |-> medium, high |-> high]

\* GET /api/dashboard/risk-distribution after batchPredict resolved.
distributionAnswer(c) == riskDistribution(Len(c.predictions))

\* predictions.find(p => p.patientId === patient.id): the position of the
\* first match, 0 when there is none.
findPrediction(predictions, id) ==
  IF \E m \in 1..Len(predictions) : predictions[m].patientId = id
    THEN CHOOSE m \in 1..Len(predictions) :
           /\ predictions[m].patientId = id
           /\ \A n \in 1..(m - 1) : predictions[n].patientId # id
    ELSE 0

\* Lines 305-320 of GET /api/patients, after batchPredict resolved: one entry
\* per patient of filteredPatients; prediction is the position of the
\* prediction the entry was filled from.
patientsAnswer(c, store) ==
  LET filtered == Argument(c, store)
      entry(patient) ==
        LET m == findPrediction(c.predictions, patient.id)
        IN [id |-> patient.id,
            riskScore |-> IF m = 0 THEN Num(0) ELSE Or(c.predictions[m].riskScore, Num(0)),
            predictedEvents |->
              IF m = 0 THEN Arr(<<>>) ELSE Or(c.predictions[m].predictedEvents, Arr(<<>>)),
            lastUpdated |->
              IF m = 0 THEN Str(<<"now">>) ELSE Or(c.predictions[m].lastUpdated, Str(<<"now">>)),
            prediction |-> m]
  IN [status |-> 200, enrichedPatients |-> [k \in 1..Len(filtered) |-> entry(filtered[k])]]

\* The handler that awaited batchPredict goes on in the turn the call resolves;
\* c is the resolved call, bound once.
respond(c0, store) ==
  LET answered(c) ==
        CASE c.caller = "cohort" -> [c EXCEPT !.answer = cohortAnswer(c, store)]
          [] c.caller = "metrics" -> [c EXCEPT !.answer = metricsAnswer(c)]
          [] c.caller = "distribution" -> [c EXCEPT !.answer = distributionAnswer(c)]
          [] c.caller = "patients" -> [c EXCEPT !.answer = patientsAnswer(c, store)]
          [] OTHER -> c
  IN CHOOSE r \in {IF c.pc # "done" THEN c ELSE answered(c) : c \in {c0}} : TRUE

PendingOf(b, c) ==
  {Request("batch", b, j) : j \in {m \in 1..Len(c.results) : c.results[m].state = "pending"}}

Groups == {"all", "metformin-study", "warfarin-study"}

\* GET /api/patients?group=...: filteredPatients is the store itself unless a
\* known study group is asked for, and batchPredict is called on it.
filteredPatients(groupId) ==
  CASE groupId = "metformin-study" ->
         LET T(p) == includes(p.medications, <<"metformin">>) IN filter(patients, T)
    [] groupId = "warfarin-study" ->
         LET T(p) == includes(p.medications, <<"warfarin">>) IN filter(patients, T)
    [] OTHER -> patients

BatchStart(b, groupId, ds) ==
  /\ bp[b].pc = "idle"
  /\ LET live == groupId \notin {"metformin-study", "warfarin-study"}
         c == [BatchIdle EXCEPT !.live = live,
                 !.input = IF live THEN <<>> ELSE filteredPatients(groupId),
                 !.arg0 = filteredPatients(groupId)]
         c1 == respond(batchChunk(c, patients, ds), patients)
     IN /\ bp' = [bp EXCEPT ![b] = c1]
        /\ net' = net \cup PendingOf(b, c1)
  /\ UNCHANGED <<envApiKey, apiKey, statusResp, configures, patients, origin, lk, up, nanoids, sse, frontend>>

\* The request bodies of POST /api/cohorts/analyze the model draws from.
CohortFilters ==
  { NoFilters,
    Filter(Num(60), Undef, Str(<<"F">>), Undef),
    Filter(Undef, Num(0), Undef, Undef),
    Filter(Num(80), Undef, Undef, Undef),
    Filter(Undef, Num(65), Undef, Arr(<< <<"warfarin">>, <<"aspirin">> >>)) }

\* POST /api/cohorts/analyze up to the first wait inside batchPredict.
CohortStart(b, filters, ds) ==
  /\ bp[b].pc = "idle"
  /\ LET sel == cohortPatients(patients, filters)
         c == [BatchIdle EXCEPT !.caller = "cohort", !.filters = filters, !.live = sel.live,
                 !.input = IF sel.live THEN <<>> ELSE sel.array,
                 !.arg0 = sel.array]
         c1 == respond(batchChunk(c, patients, ds), patients)
     IN /\ bp' = [bp EXCEPT ![b] = c1]
        /\ net' = net \cup PendingOf(b, c1)
  /\ UNCHANGED <<envApiKey, apiKey, statusResp, configures, patients, origin, lk, up, nanoids, sse, frontend>>

\* GET /api/dashboard/metrics up to the first wait inside batchPredict.
MetricsStart(b, ds) ==
  /\ bp[b].pc = "idle"
  /\ LET c == [BatchIdle EXCEPT !.caller = "metrics", !.live = TRUE, !.arg0 = patients,
                 !.totalPatients = Len(patients)]
         c1 == respond(batchChunk(c, patients, ds), patients)
     IN /\ bp' = [bp EXCEPT ![b] = c1]
        /\ net' = net \cup PendingOf(b, c1)
  /\ UNCHANGED <<envApiKey, apiKey, statusResp, configures, patients, origin, lk, up, nanoids, sse, frontend>>

\* GET /api/dashboard/risk-distribution up to the first wait inside batchPredict.
DistributionStart(b, ds) ==
  /\ bp[b].pc = "idle"
  /\ LET c == [BatchIdle EXCEPT !.caller = "distribution", !.live = TRUE, !.arg0 = patients]
         c1 == respond(batchChunk(c, patients, ds), patients)
     IN /\ bp' = [bp EXCEPT ![b] = c1]
        /\ net' = net \cup PendingOf(b, c1)
  /\ UNCHANGED <<envApiKey, apiKey, statusResp, configures, patients, origin, lk, up, nanoids, sse, frontend>>

\* The external service answers call j of the chunk in flight; the last
\* answer of the chunk lets batchPredict go on.
BatchResponse(b, j, o, d) ==
  /\ bp[b].pc = "chunk"
  /\ Request("batch", b, j) \in net
  /\ LET c == bp[b]
         p == batchCatch(predictRiskSettled(c.batch[j], o, d), c.batch[j], d)
         c1 == [c EXCEPT !.results[j] = p]
     IN bp' = [bp EXCEPT ![b] =
                 IF AllSettled(c1.results) THEN respond(afterChunk(c1, patients), patients) ELSE c1]
  /\ net' = net \ {Request("batch", b, j)}
  /\ UNCHANGED <<envApiKey, apiKey, statusResp, configures, patients, origin, lk, up, nanoids, sse, frontend>>

\* The 200 ms timer between two chunks fires: i += batchSize, next chunk.
BatchTimer(b, ds) ==
  /\ bp[b].pc = "delay"
  /\ LET c1 == respond(batchChunk([bp[b] EXCEPT !.i = @ + batchSize], patients, ds), patients)
     IN /\ bp' = [bp EXCEPT ![b] = c1]
        /\ net' = net \cup PendingOf(b, c1)
  /\ UNCHANGED <<envApiKey, apiKey, statusResp, configures, patients, origin, lk, up, nanoids, sse, frontend>>

\* ------------------------------------------------- GET /api/events/alerts
\* One SSE connection: heartbeat is the setInterval of the handler (set until
\* clearInterval), alertTimer the setTimeout streamAlerts keeps pending
\* (generateAlert re-arms it each time it runs; nothing ever clears it), ended
\* whether res.end() was called, written the events written to the response,
\* late the res.write calls made on the response after res.end(), and
\* sincePeerClose the events written while another connection was closed.
SseIdle ==
  [pc |-> "idle", heartbeat |-> FALSE, alertTimer |-> FALSE, ended |-> FALSE,
   written |-> <<>>, late |-> 0, sincePeerClose |-> 0]

fired(conn) == Len(conn.written) + conn.late

\* send(data): res.write(`data: ${JSON.stringify(data)}\n\n`) on the response
\* of this connection.
send(c, type) ==
  sse' = [sse EXCEPT ![c] =
            IF @.ended
              THEN [@ EXCEPT !.late = @ + 1]
              ELSE [@ EXCEPT !.written = Append(@, type),
                             !.sincePeerClose =
                               IF \E d \in Clients \ {c} : sse[d].pc = "closed"
                                 THEN @ + 1 ELSE @]]

\* The handler: headers, streamAlerts (which arms the 5 s timer), the 30 s
\* heartbeat interval, the close listener.
Connect(c) ==
  /\ sse[c].pc = "idle"
  /\ sse' = [sse EXCEPT ![c] = [@ EXCEPT !.pc = "open", !.heartbeat = TRUE, !.alertTimer = TRUE]]
  /\ UNCHANGED <<envApiKey, apiKey, statusResp, configures, patients, origin, net, lk, up, bp, nanoids, frontend>>

\* The heartbeat interval fires.
Heartbeat(c) ==
  /\ sse[c].heartbeat
  /\ fired(sse[c]) < MaxEvents
  /\ send(c, "heartbeat")
  /\ UNCHANGED <<envApiKey, apiKey, statusResp, configures, patients, origin, net, lk, up, bp, nanoids, frontend>>

\* The timer of streamAlerts fires: generateAlert calls the callback, which
\* sends the alert, and arms the next timer.
generateAlert(c) ==
  /\ sse[c].alertTimer
  /\ fired(sse[c]) < MaxEvents
  /\ send(c, "kumorfm_alert")
  /\ UNCHANGED <<envApiKey, apiKey, statusResp, configures, patients, origin, net, lk, up, bp, nanoids, frontend>>

\* The close listener with the interval kept in one variable of the module:
\* clearInterval stops the heartbeat of every connection.
CloseSharedHeartbeat(c) ==
  /\ sse[c].pc = "open"
  /\ sse' = [d \in Clients |->
               IF d = c THEN [sse[d] EXCEPT !.pc = "closed", !.heartbeat = FALSE, !.ended = TRUE]
                        ELSE [sse[d] EXCEPT !.heartbeat = FALSE]]
  /\ UNCHANGED <<envApiKey, apiKey, statusResp, configures, patients, origin, net, lk, up, bp, nanoids, frontend>>

\* req.on('close'): clearInterval(heartbeat); res.end().
Close(c) ==
  /\ sse[c].pc = "open"
  /\ sse' = [sse EXCEPT ![c] = [@ EXCEPT !.pc = "closed", !.heartbeat = FALSE, !.ended = TRUE]]
  /\ UNCHANGED <<envApiKey, apiKey, statusResp, configures, patients, origin, net, lk, up, bp, nanoids, frontend>>

\* ------------------------------------------------ frontend: useAlertsStore
\* alerts is the list of the store; added (the alerts added since the last
\* clearAlerts, oldest first) and calls (the addAlert calls made) are kept to
\* state what the list should hold.  An alert is the number of its call.
AlertsStoreInit == [alerts |-> <<>>, added |-> <<>>, calls |-> 0]

\* addAlert that appends: [...state.alerts, alert].slice(0, 200).
addAlertAppend(state, alert) ==
  [state EXCEPT !.alerts = slice(@ \o <<alert>>, 0, AlertsKept)]

\* addAlert: set(state => ({ alerts: [alert, ...state.alerts].slice(0, 200) }))
addAlert(state, alert) ==
  [state EXCEPT !.alerts = slice(<<alert>> \o @, 0, AlertsKept)]

\* clearAlerts: set({ alerts: [] })
clearAlerts(state) == [state EXCEPT !.alerts = <<>>]

AddAlert ==
  /\ alertsStore.calls < MaxAdds
  /\ LET alert == alertsStore.calls + 1
     IN alertsStore' = [addAlert(alertsStore, alert) EXCEPT !.added = Append(@, alert),
                                                             !.calls = @ + 1]
  /\ UNCHANGED <<backend, dashboard, patientsPage>>

ClearAlerts ==
  /\ alertsStore' = [clearAlerts(alertsStore) EXCEPT !.added = <<>>]
  /\ UNCHANGED <<backend, dashboard, patientsPage>>

\* ------------------------------------------------- frontend: DashboardPage
\* The answer of GET /api/alerts/recent: three fixed alerts.
recentAlerts == << [src |-> "recent", n |-> 1], [src |-> "recent", n |-> 2],
                   [src |-> "recent", n |-> 3] >>

\* The k-th alert received over SSE.
SseAlert(k) == [src |-> "sse", n |-> k]

\* The component: recentAlerts, loading and error are its state; fetches the
\* fetchDashboardData calls that await their Promise.all, started how many were
\* made, eventSource whether the EventSource is open, received how many alerts
\* came over it.
DashboardInit ==
  [mounted |-> FALSE, recentAlerts |-> <<>>, loading |-> TRUE, error |-> FALSE,
   fetches |-> {}, started |-> 0, eventSource |-> FALSE, received |-> 0]

\* fetchDashboardData up to `await Promise.all([...])`.
fetchDashboardData(d) ==
  [d EXCEPT !.loading = TRUE, !.error = FALSE,
            !.fetches = @ \cup {d.started + 1}, !.started = @ + 1]

\* First render: both effects run.
DashboardMount ==
  /\ ~dashboard.mounted /\ dashboard.started = 0
  /\ dashboard' = [fetchDashboardData(dashboard) EXCEPT !.mounted = TRUE, !.eventSource = TRUE]
  /\ UNCHANGED <<backend, alertsStore, patientsPage>>

\* selectedGroup changes: the first effect runs again.
DashboardGroupChange ==
  /\ dashboard.mounted
  /\ dashboard.started < MaxFetches
  /\ dashboard' = fetchDashboardData(dashboard)
  /\ UNCHANGED <<backend, alertsStore, patientsPage>>

\* The Promise.all of fetch f settles: the four setters, or the catch, then
\* finally; on an unmounted component the setters do nothing.
DashboardFetchDone(f, ok) ==
  /\ f \in dashboard.fetches
  /\ dashboard' =
       IF ~dashboard.mounted
         THEN [dashboard EXCEPT !.fetches = @ \ {f}]
         ELSE IF ok
           THEN [dashboard EXCEPT !.fetches = @ \ {f}, !.recentAlerts = recentAlerts,
                                  !.loading = FALSE]
           ELSE [dashboard EXCEPT !.fetches = @ \ {f}, !.error = TRUE, !.loading = FALSE]
  /\ UNCHANGED <<backend, alertsStore, patientsPage>>

\* eventSource.onmessage: an alert is put in front of the first 9 entries; a
\* heartbeat, or data that does not parse, changes nothing.
onmessage(type) ==
  /\ dashboard.eventSource
  /\ dashboard.received < MaxSseAlerts
  /\ dashboard' =
       IF type = "kumorfm_alert"
         THEN [dashboard EXCEPT !.received = @ + 1,
                 !.recentAlerts = <<SseAlert(dashboard.received + 1)>> \o slice(@, 0, RecentKept)]
         ELSE dashboard
  /\ UNCHANGED <<backend, alertsStore, patientsPage>>

\* The cleanup of the second effect: eventSource.close().
DashboardUnmount ==
  /\ dashboard.mounted
  /\ dashboard' = [dashboard EXCEPT !.mounted = FALSE, !.eventSource = FALSE]
  /\ UNCHANGED <<backend, alertsStore, patientsPage>>

\* -------------------------------------------------- frontend: PatientsPage
\* What the page shows before any answer.
NoList == [params |-> "none", id |-> 0]

\* The component: selectedGroup comes from the Layout (null until its effect
\* sets the default group), patients is the list shown, named by the request
\* whose answer it is; requests are the GET /patients requests in flight.
PatientsPageInit ==
  [mounted |-> FALSE, selectedGroup |-> "null", patients |-> NoList, loading |-> TRUE,
   error |-> FALSE, requests |-> {}, started |-> 0]

PageGroups == {"all", "metformin-study", "warfarin-study"}

\* The query string of the request for a group.
params(group) == IF group \in {"null", "all"} THEN "" ELSE group

\* fetchPatients up to `await apiClient.get(...)`, for the group of this render.
fetchPatients(pg, group) ==
  [pg EXCEPT !.loading = TRUE, !.error = FALSE, !.started = @ + 1,
             !.requests = @ \cup {[id |-> pg.started + 1, params |-> params(group)]}]

\* First render, selectedGroup still null: the effect runs.
PatientsMount ==
  /\ ~patientsPage.mounted
  /\ patientsPage' = [fetchPatients(patientsPage, "null") EXCEPT !.mounted = TRUE]
  /\ UNCHANGED <<backend, alertsStore, dashboard>>

\* The Layout sets another group (the default one after the mount, or the
\* one chosen in the selector): the effect runs again.
PatientsGroupChange(group) ==
  /\ patientsPage.mounted
  /\ group # patientsPage.selectedGroup
  /\ patientsPage.started < MaxRequests
  /\ patientsPage' = [fetchPatients(patientsPage, group) EXCEPT !.selectedGroup = group]
  /\ UNCHANGED <<backend, alertsStore, dashboard>>

\* handlePatientAdded (the modal, or "Try again"): both are on screen only
\* when the page is not loading.
handlePatientAdded ==
  /\ patientsPage.mounted
  /\ ~patientsPage.loading
  /\ patientsPage.started < MaxRequests
  /\ patientsPage' = fetchPatients(patientsPage, patientsPage.selectedGroup)
  /\ UNCHANGED <<backend, alertsStore, dashboard>>

\* The request r is answered: setPatients(response.data), or the catch, then
\* finally setLoading(false).
PatientsResponse(r, ok) ==
  /\ r \in patientsPage.requests
  /\ patientsPage' =
       IF ok
         THEN [patientsPage EXCEPT !.requests = @ \ {r}, !.loading = FALSE,
                                   !.patients = [params |-> r.params, id |-> r.id]]
         ELSE [patientsPage EXCEPT !.requests = @ \ {r}, !.loading = FALSE, !.error = TRUE]
  /\ UNCHANGED <<backend, alertsStore, dashboard>>

\* ----------------------------------------------------------- specification
\* The key the process was started with: none, or one in the environment.
StartKeys == {Undef, Str(<<"sk-env">>)}

Init ==
  /\ envApiKey \in StartKeys
  /\ apiKey = Or(envApiKey, Str(<<>>))
  /\ statusResp = [from |-> "none", configured |-> FALSE]
  /\ configures = 0
  /\ patients = SeedPatients
  /\ origin = [k \in 1..Len(SeedPatients) |-> 0]
  /\ net = {}
  /\ lk = [s \in Lookups |-> LookupIdle]
  /\ up = [u \in Uploads |-> UploadIdle]
  /\ bp = [b \in Batches |-> BatchIdle]
  /\ nanoids = 0
  /\ sse = [c \in Clients |-> SseIdle]
  /\ alertsStore = AlertsStoreInit
  /\ dashboard = DashboardInit
  /\ patientsPage = PatientsPageInit

RowsOf(f) == IF f = NoFile THEN 0 ELSE Len(Files[f].rows)

\* The outcomes and draws the specifications with several requests in flight
\* sample: one answer that is mapped, one failure, one draw of the mock.
SomeOutcomes ==
  {o \in Outcomes : \/ o.kind = "ok" /\ o.data.risk_score = Num(Scale \div 2)
                    \/ o.kind = "timeout"}
SomeDraws == {d \in MockDraws : d.r1 = 0}
SomeDrawSeqs(n) == [1..n -> SomeDraws]

\* The prediction client behind the credential endpoints and the risk lookup.
NextClient ==
  \/ \E key \in ConfigureKeys : Configure(key)
  \/ Status
  \/ Health
  \/ \E s \in Lookups, id \in LookupIds, d \in MockDraws : LookupStart(s, id, d)
  \/ \E s \in Lookups, o \in Outcomes, d \in MockDraws : LookupResponse(s, o, d)

SpecClient == Init /\ [][NextClient]_vars

\* CSV uploads, one after another or at the same time; the external service,
\* when it is called, answers.
UploadOutcomes == {o \in SomeOutcomes : o.kind = "ok"}

NextUpload ==
  \/ \E u \in Uploads, f \in 0..Len(Files) : \E ds \in DrawSeqs(RowsOf(f)) : UploadStart(u, f, ds)
  \/ \E u \in Uploads, o \in UploadOutcomes, d \in SomeDraws :
       \E ds \in SomeDrawSeqs(Len(up[u].records)) : UploadResponse(u, o, d, ds)

SpecUpload == Init /\ [][NextUpload]_vars

\* batchPredict calls while a CSV upload is served.
NextBatch ==
  \/ \E u \in 1..BatchUploads, f \in 0..Len(Files) :
       \E ds \in SomeDrawSeqs(RowsOf(f)) : UploadStart(u, f, ds)
  \/ \E u \in 1..BatchUploads, o \in SomeOutcomes, d \in SomeDraws :
       \E ds \in SomeDrawSeqs(Len(up[u].records)) : UploadResponse(u, o, d, ds)
  \/ \E b \in Batches, g \in Groups, ds \in SomeDrawSeqs(batchSize) : BatchStart(b, g, ds)
  \/ \E b \in Batches, j \in 1..batchSize, o \in SomeOutcomes, d \in SomeDraws :
       BatchResponse(b, j, o, d)
  \/ \E b \in Batches, ds \in SomeDrawSeqs(batchSize) : BatchTimer(b, ds)

SpecBatch == Init /\ [][NextBatch]_vars

\* The draws of one chunk the aggregation endpoints are sampled at: the two
\* draws of MockDraws in turn, starting with either.
ChunkDrawSeqs ==
  {ds \in [1..batchSize -> MockDraws] :
     ds[1] # ds[2] /\ \A j \in 1..(batchSize - 2) : ds[j + 2] = ds[j]}

\* The files uploaded while the aggregation endpoints are served.
AggregateFiles == {f \in 1..Len(Files) : Files[f] \in {FileValid, FileMixed}}

\* The call of a chunk that is answered next when the external service
\* answers the calls of a chunk in the order they were made.
FirstPending(b) ==
  {j \in 1..batchSize :
     /\ Request("batch", b, j) \in net
     /\ \A m \in 1..(j - 1) : Request("batch", b, m) \notin net}

\* Cohort analysis and dashboard metrics while CSV uploads are served; the
\* external service, when it is called, answers, one call after the other.
NextAggregate ==
  \/ \E u \in 1..BatchUploads, f \in AggregateFiles :
       \E ds \in SomeDrawSeqs(RowsOf(f)) : UploadStart(u, f, ds)
  \/ \E b \in Batches, filters \in CohortFilters, ds \in ChunkDrawSeqs : CohortStart(b, filters, ds)
  \/ \E b \in Batches, ds \in ChunkDrawSeqs : MetricsStart(b, ds)
  \/ \E b \in Batches, o \in SomeOutcomes, d \in SomeDraws :
       \E j \in FirstPending(b) : BatchResponse(b, j, o, d)
  \/ \E b \in Batches, ds \in ChunkDrawSeqs : BatchTimer(b, ds)

SpecAggregate == Init /\ [][NextAggregate]_vars

\* The files that fill the store beyond one chunk.
ChunkFiles == {f \in 1..Len(Files) : Files[f] = FileValid}

\* The filters no stored patient passes.
EmptyingFilters == {f \in CohortFilters : f.ageMin = Num(80)}

\* batchPredict calls on a store that one upload fills beyond one chunk; the
\* calls of a chunk end in any order, the odd ones with an answer, the even
\* ones with a timeout.
NextChunks ==
  \/ \E f \in ChunkFiles : \E ds \in SomeDrawSeqs(RowsOf(f)) : UploadStart(1, f, ds)
  \/ \E o \in UploadOutcomes, d \in SomeDraws :
       \E ds \in SomeDrawSeqs(Len(up[1].records)) : UploadResponse(1, o, d, ds)
  \/ \E b \in Batches, g \in Groups, ds \in SomeDrawSeqs(batchSize) : BatchStart(b, g, ds)
  \/ \E b \in Batches, filters \in EmptyingFilters, ds \in SomeDrawSeqs(batchSize) :
       CohortStart(b, filters, ds)
  \/ \E b \in Batches, j \in 1..batchSize, o \in SomeOutcomes, d \in SomeDraws :
       (o.kind = "ok" <=> j % 2 = 1) /\ BatchResponse(b, j, o, d)
  \/ \E b \in Batches, ds \in SomeDrawSeqs(batchSize) : BatchTimer(b, ds)

SpecChunks == Init /\ [][NextChunks]_vars

\* The same with the scheduling Node and axios give: a timer that is set
\* fires, and every call batchPredict makes of the external service ends
\* (the client has a timeout).
SpecChunksFair ==
  /\ SpecChunks
  /\ \A b \in Batches :
       /\ WF_vars(\E ds \in SomeDrawSeqs(batchSize) : BatchTimer(b, ds))
       /\ WF_vars(\E j \in 1..batchSize, o \in SomeOutcomes, d \in SomeDraws :
                    (o.kind = "ok" <=> j % 2 = 1) /\ BatchResponse(b, j, o, d))

\* Risk lookups while CSV uploads fill the store.
NextStore ==
  \/ \E u \in 1..BatchUploads, f \in 0..Len(Files) :
       \E ds \in SomeDrawSeqs(RowsOf(f)) : UploadStart(u, f, ds)
  \/ \E u \in 1..BatchUploads, o \in SomeOutcomes, d \in SomeDraws :
       \E ds \in SomeDrawSeqs(Len(up[u].records)) : UploadResponse(u, o, d, ds)
  \/ \E s \in Lookups, id \in LookupIds, d \in SomeDraws : LookupStart(s, id, d)
  \/ \E s \in Lookups, o \in SomeOutcomes, d \in SomeDraws : LookupResponse(s, o, d)

SpecStore == Init /\ [][NextStore]_vars

\* The alert stream: clients connect, the timers fire, clients disconnect.
NextSSE ==
  \/ \E c \in Clients : Connect(c)
  \/ \E c \in Clients : Heartbeat(c)
  \/ \E c \in Clients : generateAlert(c)
  \/ \E c \in Clients : Close(c)

SpecSSE == Init /\ [][NextSSE]_vars

\* The requests served so far, of all endpoints but the two that only read
\* the environment.
Served ==
  configures
    + Cardinality({s \in Lookups : lk[s].pc # "idle"})
    + Cardinality({u \in Uploads : up[u].pc # "idle"})
    + Cardinality({b \in Batches : bp[b].pc # "idle"})
    + Cardinality({c \in Clients : sse[c].pc # "idle"})

\* Every endpoint of the backend, a few requests at a time: an upload, one
\* of the handlers that call batchPredict, a risk lookup, an alert stream
\* and the credential endpoints.
NextEndpoints ==
  \/ \E f \in ChunkFiles : \E ds \in SomeDrawSeqs(RowsOf(f)) :
       Served < MaxServed /\ UploadStart(1, f, ds)
  \/ \E o \in UploadOutcomes, d \in SomeDraws :
       \E ds \in SomeDrawSeqs(Len(up[1].records)) : UploadResponse(1, o, d, ds)
  \/ \E g \in Groups, ds \in SomeDrawSeqs(batchSize) : Served < MaxServed /\ BatchStart(1, g, ds)
  \/ \E filters \in CohortFilters, ds \in SomeDrawSeqs(batchSize) :
       Served < MaxServed /\ CohortStart(1, filters, ds)
  \/ \E ds \in SomeDrawSeqs(batchSize) : Served < MaxServed /\ MetricsStart(1, ds)
  \/ \E ds \in SomeDrawSeqs(batchSize) : Served < MaxServed /\ DistributionStart(1, ds)
  \/ \E o \in SomeOutcomes, d \in SomeDraws :
       \E j \in FirstPending(1) : (o.kind = "ok" <=> j % 2 = 1) /\ BatchResponse(1, j, o, d)
  \/ \E ds \in SomeDrawSeqs(batchSize) : BatchTimer(1, ds)
  \/ \E id \in LookupIds, d \in SomeDraws : Served < MaxServed /\ LookupStart(1, id, d)
  \/ \E o \in SomeOutcomes, d \in SomeDraws : LookupResponse(1, o, d)
  \/ Served < MaxServed /\ Connect(1)
  \/ Heartbeat(1)
  \/ generateAlert(1)
  \/ Close(1)
  \/ \E key \in ConfigureKeys : Served < MaxServed /\ Configure(key)
  \/ Status
  \/ Health

SpecEndpoints == Init /\ [][NextEndpoints]_vars

\* The alerts store of the browser.
NextAlertsStore ==
  \/ AddAlert
  \/ ClearAlerts

SpecAlertsStore == Init /\ [][NextAlertsStore]_vars

\* The dashboard page: its data fetches and the alert stream.
NextDashboard ==
  \/ DashboardMount
  \/ DashboardGroupChange
  \/ \E f \in 1..MaxFetches, ok \in BOOLEAN : DashboardFetchDone(f, ok)
  \/ \E type \in {"kumorfm_alert", "heartbeat", "unparsable"} : onmessage(type)
  \/ DashboardUnmount

SpecDashboard == Init /\ [][NextDashboard]_vars

\* The Patients page: group changes, re-fetches and the answers.
NextPatientsPage ==
  \/ PatientsMount
  \/ \E group \in PageGroups : PatientsGroupChange(group)
  \/ handlePatientAdded
  \/ \E r \in patientsPage.requests, ok \in BOOLEAN : PatientsResponse(r, ok)

SpecPatientsPage == Init /\ [][NextPatientsPage]_vars

\* ------------------------------------------------------------------ claims
IsMockPrediction(p, id) == \E d \in MockDraws : p = getMockRiskPrediction(id, d)

\* The shape of a RiskPrediction (kumoRFMService.ts:14-24).
IsRiskPrediction(p) ==
  /\ p.patientId.t = "string"
  /\ p.riskScore.t = "number"
  /\ p.predictedEvents.t = "array"
  /\ p.riskFactors.t = "array"
  /\ p.lastUpdated.t = "string"

InUnitInterval(v) == v.t = "number" /\ 0 <= v.n /\ v.n <= Scale

BatchMatches(predictions, input) ==
  /\ Len(predictions) = Len(input)
  /\ \A k \in 1..Len(input) : predictions[k].patientId = input[k].id

\* C1: a finished batchPredict call holds one prediction per patient of its
\* input, at the patient's position (the input read as the array it was
\* called with, or as that array as it is when the call resolves).
C1_BatchMatchesInput ==
  \A b \in Batches :
    bp[b].pc = "done" =>
      \/ BatchMatches(bp[b].predictions, bp[b].arg0)
      \/ BatchMatches(bp[b].predictions, bp[b].arg1)

\* C2: predictRisk never rejects; whatever the outcome of the external call
\* it resolves to a RiskPrediction for the patient it was given, and to the
\* mock prediction when the call failed.
C2_PredictRiskNeverRejects ==
  \A s \in Lookups :
    /\ lk[s].pc # "500"
    /\ lk[s].result.state # "rejected"
    /\ lk[s].pc = "200" =>
         /\ lk[s].result.state = "fulfilled"
         /\ IsRiskPrediction(lk[s].result.value)
         /\ lk[s].result.value.patientId = lk[s].id
         /\ lk[s].outcome \in {"timeout", "http", "network", "null body"} =>
              IsMockPrediction(lk[s].result.value, lk[s].id)

C2_Witness ==
  /\ \E s \in Lookups : lk[s].pc = "200" /\ lk[s].outcome = "timeout"
  /\ \E s \in Lookups : lk[s].pc = "200" /\ lk[s].outcome = "ok"

\* C3: every prediction predictRisk returns has its riskScore in [0, 1].
C3_RiskScoreInUnitInterval ==
  \A s \in Lookups : lk[s].pc = "200" => InUnitInterval(lk[s].result.value.riskScore)

\* C4: once the credential has been configured (with an apiKey string in the
\* body), a predictRisk call made while the last GET /api/kumorfm/status
\* answer stands takes the path that answer reports: configured, a request to
\* the external service; not configured, no request and the mock prediction.
C4_StatusDecidesPath ==
  [][\A s \in Lookups :
       (/\ lk[s].pc = "idle" /\ lk'[s].pc \in {"await", "200", "500"}
        /\ configures > 0 /\ statusResp.from = "status"
        /\ envApiKey \in ConfigureKeys)
       => IF statusResp.configured
            THEN lk'[s].pc = "await" /\ net' # net
            ELSE /\ lk'[s].pc = "200" /\ net' = net
                 /\ IsMockPrediction(lk'[s].result.value, lk'[s].id)]_vars

\* C5: a client without API key sends nothing to the external service, and
\* every predictRisk call returns the mock prediction of its patient.
C5_NoKeyNoRequest ==
  ~Truthy(apiKey) =>
    /\ net = {}
    /\ \A s \in Lookups :
         lk[s].pc \notin {"idle", "404"} =>
           /\ lk[s].pc = "200"
           /\ lk[s].outcome = "none"
           /\ IsMockPrediction(lk[s].result.value, lk[s].id)

C5_Witness == ~Truthy(apiKey) /\ \E s \in Lookups : lk[s].pc = "200"

\* The profiles request u appended, in the order of the store.
AppendedBy(u) ==
  LET By(k) == origin[k] = u
      at == SelectSeq([k \in 1..Len(patients) |-> k], By)
  IN [m \in 1..Len(at) |-> patients[at[m]]]

Threw(record) == rowProfile(record, 0).threw
NotThrew(record) == ~Threw(record)

\* A row that cannot be a patient: its age is no number, or a list cell is no text.
Malformed(record) == ToNumber(record.age).t # "number" \/ Threw(record)

RECURSIVE SumProcessed(_)
SumProcessed(n) == IF n = 0 THEN 0 ELSE up[n].processed + SumProcessed(n - 1)

\* C6: no two profiles of the store have the same id.
C6_UniqueIds ==
  \A j, k \in 1..Len(patients) : j # k => patients[j].id # patients[k].id

\* C7: a malformed row of an answered upload is in the errors list, is not
\* among the processed rows and is not in the store.
C7_MalformedRowIsAnError ==
  \A u \in Uploads :
    up[u].pc = "200" =>
      \A k \in 1..Len(up[u].records) :
        Malformed(up[u].records[k]) =>
          /\ \E e \in 1..Len(up[u].errors) :
               up[u].errors[e].patient_id = up[u].records[k].patient_id
          /\ \A m \in 1..Len(up[u].predictions) :
               up[u].predictions[m].originalData # up[u].records[k]
          /\ \A m \in 1..Len(AppendedBy(u)) :
               AppendedBy(u)[m].id # up[u].records[k].patient_id

\* C8: a record that throws does not end the upload: the request of a file
\* that parses is never answered 500, and every record after the failed one
\* that does not throw itself has its prediction in the answer, is counted
\* and is in the store.
C8_FailedRowDoesNotAbort ==
  \A u \in Uploads :
    /\ up[u].pc = "500" => ~Files[up[u].file].parses
    /\ up[u].pc = "200" =>
         /\ up[u].processed = Len(SelectSeq(up[u].records, NotThrew))
         /\ \A j, k \in 1..Len(up[u].records) :
              (j < k /\ Threw(up[u].records[j]) /\ ~Threw(up[u].records[k])) =>
                \E m \in 1..Len(up[u].predictions) :
                  /\ up[u].predictions[m].originalData = up[u].records[k]
                  /\ m <= Len(AppendedBy(u))
                  /\ AppendedBy(u)[m].id = up[u].predictions[m].patientId
                  /\ AppendedBy(u)[m].age = ToNumber(up[u].records[k].age)

C8_Witness ==
  \E u \in Uploads :
    /\ up[u].pc = "200"
    /\ \E j, k \in 1..Len(up[u].records) :
         /\ j < k /\ Threw(up[u].records[j]) /\ ~Threw(up[u].records[k])
         /\ \E m \in 1..Len(AppendedBy(u)) :
              AppendedBy(u)[m].id = up[u].records[k].patient_id

\* C9: processed + errors.length is the number of records handled so far,
\* and the number of data rows of the file once the upload is answered; a
\* file without data rows is answered 200 with processed 0 and no errors.
C9_ProcessedPlusErrors ==
  \A u \in Uploads :
    /\ up[u].pc = "await" => up[u].processed + Len(up[u].errors) = up[u].k - 1
    /\ up[u].pc = "200" =>
         up[u].processed + Len(up[u].errors) = Len(Files[up[u].file].rows)
    /\ (up[u].file # NoFile /\ Files[up[u].file].parses /\ Files[up[u].file].rows = <<>>) =>
         up[u].pc = "200" /\ up[u].processed = 0 /\ up[u].errors = <<>>

C9_Witness ==
  /\ \E u \in Uploads : up[u].pc = "200" /\ up[u].processed > 0 /\ up[u].errors # <<>>
  /\ \E u \in Uploads : up[u].pc = "200" /\ Files[up[u].file].rows = <<>>

\* C10: the profiles an upload has appended are as many as its processed
\* count; when it is answered they are the profiles of the records that did
\* not throw, in file order; a request answered 400 or 500 appended nothing;
\* so the store is the seed patients plus the processed rows of the uploads.
C10_AppendsProcessedRows ==
  /\ \A u \in Uploads :
       LET appended == AppendedBy(u)
           ok == SelectSeq(up[u].records, NotThrew)
       IN /\ Len(appended) = up[u].processed
          /\ up[u].pc \in {"400", "500"} => appended = <<>>
          /\ up[u].pc = "200" =>
               /\ Len(appended) = Len(ok)
               /\ \A m \in 1..Len(ok) :
                    /\ appended[m] =
                         [rowProfile(ok[m], 0).profile EXCEPT !.id = appended[m].id]
                    /\ Truthy(ok[m].patient_id) => appended[m].id = ok[m].patient_id
  /\ Len(patients) = Len(SeedPatients) + SumProcessed(NumUploads)

C10_Witness ==
  /\ \E u \in Uploads : up[u].pc = "200" /\ up[u].processed >= 2 /\ up[u].errors # <<>>
  /\ \E u \in Uploads : up[u].pc = "500"

\* C11: after the close event of a connection nothing is written to its
\* response any more: no timer of that connection calls res.write on it.
C11_NoWriteAfterClose ==
  \A c \in Clients : sse[c].pc = "closed" => sse[c].late = 0

\* C12: the disconnect of one client leaves every other connection, the
\* patient store and the credential as they are, and a connection that has
\* not disconnected keeps both its timers, whose events are written to it.
C12_DisconnectIsLocal ==
  [][/\ \A c \in Clients :
          (sse[c].pc = "open" /\ sse'[c].pc = "closed") =>
            /\ \A d \in Clients \ {c} : sse'[d] = sse[d]
            /\ patients' = patients /\ envApiKey' = envApiKey /\ apiKey' = apiKey
     /\ \A d \in Clients :
          sse'[d].pc = "open" =>
            /\ sse'[d].heartbeat /\ sse'[d].alertTimer /\ ~sse'[d].ended
            /\ sse'[d].late = 0
            /\ (sse[d].pc = "open" /\ sse'[d] # sse[d]) =>
                 Len(sse'[d].written) = Len(sse[d].written) + 1]_vars

C12_Witness ==
  \E c, d \in Clients :
    /\ sse[c].pc = "closed" /\ sse[d].pc = "open"
    /\ sse[d].sincePeerClose >= 2
    /\ \E j, k \in 1..Len(sse[d].written) :
         sse[d].written[j] = "heartbeat" /\ sse[d].written[k] = "kumorfm_alert"

\* An id as it reads in a URL or in a CSV cell.
IdText(v) == IF v.t = "number" THEN <<ToString(v.n)>> ELSE v.s

\* C13: a risk lookup is answered 404 exactly when no stored patient has the
\* requested id, otherwise (at once or after the external call) with one
\* RiskPrediction whose patientId is that id; it never changes the store.
C13_LookupFindsStoredId ==
  [][\A s \in Lookups :
       lk'[s] # lk[s] =>
         /\ patients' = patients
         /\ lk'[s].pc # "500"
         /\ lk[s].pc = "idle" =>
              (lk'[s].pc = "404" <=>
                 ~\E k \in 1..Len(patients) : IdText(patients[k].id) = lk'[s].id.s)
         /\ lk'[s].pc = "200" =>
              /\ IsRiskPrediction(lk'[s].result.value)
              /\ lk'[s].result.value.patientId = lk'[s].id]_vars

\* A criterion is supplied when the filter has a value for it.
Supplied(v) == v.t # "undefined"

\* The patients of store that satisfy every supplied criterion of filters.
Satisfying(store, filters) ==
  LET Sat(q) ==
        /\ Supplied(filters.ageMin) => (q.age.t = "number" /\ q.age.n >= filters.ageMin.n)
        /\ Supplied(filters.ageMax) => (q.age.t = "number" /\ q.age.n <= filters.ageMax.n)
        /\ Supplied(filters.sex) => q.sex = filters.sex
        /\ Supplied(filters.medications) =>
             \E j \in 1..Len(filters.medications.a), k \in 1..Len(q.medications) :
               q.medications[k] = filters.medications.a[j]
  IN SelectSeq(store, Sat)

\* C14: the cohort of a POST /api/cohorts/analyze request is the stored
\* patients that satisfy every supplied criterion, in store order; the answer
\* has cohortSize equal to its size and one prediction for each of them.
C14_CohortIsTheFilteredSubset ==
  [][\A b \in Batches :
       /\ (bp[b].pc = "idle" /\ bp'[b].pc # "idle" /\ bp'[b].caller = "cohort") =>
            bp'[b].arg0 = Satisfying(patients, bp'[b].filters)
       /\ (bp[b].pc # "done" /\ bp'[b].pc = "done" /\ bp'[b].caller = "cohort") =>
            /\ bp'[b].answer.status = 200
            /\ bp'[b].answer.cohortSize = Len(bp'[b].arg0)
            /\ BatchMatches(bp'[b].answer.predictions, bp'[b].arg0)]_vars

\* C15: a cohort request whose filtered subset is empty is answered at once
\* with status 200, cohortSize 0, highRiskCount 0, no predictions and an
\* averageRisk that is a value (NaN), no exception being thrown.
C15_EmptyCohortIsAnswered ==
  \A b \in Batches :
    (bp[b].pc # "idle" /\ bp[b].caller = "cohort" /\ bp[b].arg0 = <<>>) =>
      /\ bp[b].pc = "done"
      /\ bp[b].answer.status = 200
      /\ bp[b].answer.cohortSize = 0
      /\ bp[b].answer.highRiskCount = 0
      /\ bp[b].answer.predictions = <<>>
      /\ bp[b].answer.averageRisk.t \in {"number", "NaN"}

C15_Witness ==
  \E b \in Batches :
    /\ bp[b].caller = "cohort" /\ bp[b].pc = "done" /\ bp[b].arg0 = <<>>
    /\ bp[b].filters.ageMin = Num(80)
    /\ bp[b].answer.status = 200

\* The sum of the risk scores of the predictions from position k on.
RECURSIVE SumScoresFrom(_, _)
SumScoresFrom(predictions, k) ==
  IF k > Len(predictions) THEN 0
  ELSE predictions[k].riskScore.n + SumScoresFrom(predictions, k + 1)

HighRiskCount(predictions) ==
  Cardinality({k \in 1..Len(predictions) : predictions[k].riskScore.n * 10 > 7 * Scale})

\* v is the mean of the risk scores of predictions (to the fixed-point unit).
IsMeanOf(v, predictions) ==
  /\ v.t = "number"
  /\ v.n * Len(predictions) <= SumScoresFrom(predictions, 1)
  /\ SumScoresFrom(predictions, 1) < (v.n + 1) * Len(predictions)

\* C18 as stated: the metrics answer has highRiskPatients equal to the count
\* of the predictions with riskScore > 0.7 and averageRiskScore equal to the
\* mean of the risk scores of all the predictions.
C18_MetricsCountAndMean ==
  \A b \in Batches :
    (bp[b].caller = "metrics" /\ bp[b].pc = "done") =>
      /\ bp[b].answer.status = 200
      /\ bp[b].answer.highRiskPatients = HighRiskCount(bp[b].predictions)
      /\ IsMeanOf(bp[b].answer.averageRiskScore, bp[b].predictions)

\* C18 amended: highRiskPatients is 42 times the count of the predictions
\* batchPredict returned with riskScore > 0.7, and averageRiskScore is the
\* mean of the risk scores of all those predictions.
C18_MetricsScaledCountAndMean ==
  \A b \in Batches :
    (bp[b].caller = "metrics" /\ bp[b].pc = "done") =>
      /\ bp[b].answer.status = 200
      /\ bp[b].answer.highRiskPatients = 42 * HighRiskCount(bp[b].predictions)
      /\ IsMeanOf(bp[b].answer.averageRiskScore, bp[b].predictions)

C18_Witness ==
  \E b \in Batches :
    /\ bp[b].caller = "metrics" /\ bp[b].pc = "done"
    /\ bp[b].answer.highRiskPatients > 0
    /\ Len(bp[b].predictions) > batchSize
    /\ \E k \in 1..Len(bp[b].predictions) : ~isHighRisk(bp[b].predictions[k])

\* The rows of the file of upload u that did not throw, by their position in
\* the file: the m-th of them is the m-th processed row.
ProcessedRows(u) ==
  LET Ok(k) == NotThrew(up[u].records[k])
  IN SelectSeq([k \in 1..Len(up[u].records) |-> k], Ok)

\* The cell is there and holds something.
NonEmptyCell(cell) == cell.t = "string" /\ cell.s # <<>>

\* keys is present in mapping exactly for the non-empty cells of row, with the
\* value of the cell when the cell is a numeral.
KeysFollowCells(mapping, row, keys) ==
  \A key \in keys :
    /\ key \in DOMAIN mapping <=> NonEmptyCell(row[key])
    /\ (NonEmptyCell(row[key]) /\ isFloat(row[key].s)) =>
         (key \in DOMAIN mapping /\ mapping[key] = Num(NumeralValue[row[key].s[1]] * LabUnit))

\* C16: in the profile of a processed row a lab or vital-sign key is present
\* exactly when the cell of the row is non-empty; a cell 0 gives the value 0.
C16_LabKeysFollowCells ==
  \A u \in Uploads :
    up[u].pc = "200" =>
      \A m \in 1..Len(ProcessedRows(u)) :
        m <= Len(AppendedBy(u)) =>
          LET row == Files[up[u].file].rows[ProcessedRows(u)[m]]
              profile == AppendedBy(u)[m]
          IN /\ KeysFollowCells(profile.labResults, row, LabKeys)
             /\ KeysFollowCells(profile.vitalSigns, row, VitalKeys)

NotSpace(x) == x # " "
IsComma(x) == x = ","

\* The tokens of list written one after the other with commas between them.
RECURSIVE Joined(_)
Joined(list) ==
  IF list = <<>> THEN <<>>
  ELSE IF Len(list) = 1 THEN list[1]
  ELSE list[1] \o <<",">> \o Joined(Tail(list))

\* list is the cell split on commas, every token trimmed, in source order.
IsSplitOf(list, cell) ==
  IF cell.s = <<>> THEN list = <<>>
  ELSE /\ Len(list) = Len(SelectSeq(cell.s, IsComma)) + 1
       /\ \A k \in 1..Len(list) :
            list[k] # <<>> => (list[k][1] # " " /\ list[k][Len(list[k])] # " ")
       /\ SelectSeq(Joined(list), NotSpace) = SelectSeq(cell.s, NotSpace)

\* C17: the profile stored for a processed row with a numeric age has the
\* medications of the cell (split on commas, trimmed, in order), the
\* patient_id (as it reads), age and sex of the row, and the answer has the
\* one prediction of the row at the row's place, with the profile's id.
C17_RowRoundTrip ==
  \A u \in Uploads :
    up[u].pc = "200" =>
      \A m \in 1..Len(ProcessedRows(u)) :
        LET k == ProcessedRows(u)[m]
            row == Files[up[u].file].rows[k]
        IN (m <= Len(AppendedBy(u)) /\ ~Malformed(up[u].records[k])) =>
             LET profile == AppendedBy(u)[m]
             IN /\ IsSplitOf(profile.medications, row.medications)
                /\ row.patient_id.s # <<>> => IdText(profile.id) = row.patient_id.s
                /\ profile.age = ToNumber(row.age)
                /\ profile.sex = row.sex
                /\ Len(up[u].predictions) = Len(ProcessedRows(u))
                /\ up[u].predictions[m].originalData = up[u].records[k]
                /\ up[u].predictions[m].patientId = profile.id

\* The calls of batchPredict call b that are in flight in the set n.
InFlight(b, n) == {r \in n : r.owner = "batch" /\ r.slot = b}

\* C19: a batchPredict call starts a chunk only when no call of its earlier
\* chunks is in flight, has calls in flight only while it awaits a chunk,
\* and never more than 5 of them.
C19_ChunksInSequence ==
  [][\A b \in Batches :
       /\ bp'[b].chunks > bp[b].chunks => InFlight(b, net) = {}
       /\ bp'[b].chunks <= bp[b].chunks + 1
       /\ Cardinality(InFlight(b, net')) <= batchSize
       /\ bp'[b].pc # "chunk" => InFlight(b, net') = {}]_vars

C19_Witness ==
  \E b \in Batches :
    /\ bp[b].chunks = 2 /\ bp[b].pc = "chunk"
    /\ InFlight(b, net) # {}
    /\ Len(bp[b].predictions) = batchSize

\* ceil(n / 5)
ChunksOf(n) == (n + batchSize - 1) \div batchSize

C21_StoreIsAppendOnly ==
  [][/\ Len(patients') >= Len(patients)
     /\ SubSeq(patients', 1, Len(patients)) = patients
     /\ SubSeq(patients', 1, Len(SeedPatients)) = SeedPatients
     /\ up' = up => patients' = patients]_vars

C21_Witness ==
  /\ Len(patients) > Len(SeedPatients)
  /\ \E b \in Batches :
       /\ bp[b].pc = "done" /\ bp[b].caller = "cohort" /\ ~bp[b].live
       /\ Len(bp[b].arg0) < Len(patients)

\* C22: the profiles an upload has appended are next to one another in the
\* store, no profile of another upload between them, and in the order of
\* the rows of its file.
C22_UploadsDoNotInterleave ==
  \A u \in Uploads :
    /\ \A j, k \in 1..Len(origin) :
         (j < k /\ origin[j] = u /\ origin[k] = u) =>
           \A m \in j..k : origin[m] = u
    /\ LET ok == SelectSeq(up[u].records, NotThrew)
       IN \A m \in 1..Len(AppendedBy(u)) :
            /\ m <= Len(ok)
            /\ AppendedBy(u)[m].age = ToNumber(ok[m].age)
            /\ AppendedBy(u)[m].sex = ok[m].sex

\* The answer a has the three bucket counts of n predictions: with
\* T = 947 * n, low = floor(0.664 T), medium = floor(0.291 T), high the rest,
\* none negative, T in all.
IsDistributionOf(a, n) ==
  LET T == 947 * n
  IN /\ a.status = 200
     /\ 1000 * a.low <= 664 * T /\ 664 * T < 1000 * (a.low + 1)
     /\ 1000 * a.medium <= 291 * T /\ 291 * T < 1000 * (a.medium + 1)
     /\ a.high = T - a.low - a.medium
     /\ a.low >= 0 /\ a.medium >= 0 /\ a.high >= 0
     /\ a.low + a.medium + a.high = T

C24_LiveStoreSnapshot ==
  \A b \in Batches :
    (bp[b].pc = "done" /\ bp[b].live) =>
      /\ BatchMatches(bp[b].predictions, bp[b].arg0)
      /\ bp[b].caller = "metrics" => Len(bp[b].predictions) = bp[b].totalPatients

\* C25: every entry of a GET /api/patients answer is filled from a
\* prediction that this request computed for the patient of the entry, never
\* from the fallback values: one entry per patient of the list, in order.
C25_EntriesCarryOwnPrediction ==
  \A b \in Batches :
    (bp[b].caller = "patients" /\ bp[b].pc = "done") =>
      /\ bp[b].answer.status = 200
      /\ Len(bp[b].answer.enrichedPatients) = Len(bp[b].arg1)
      /\ \A k \in 1..Len(bp[b].answer.enrichedPatients) :
           LET e == bp[b].answer.enrichedPatients[k]
           IN /\ e.id = bp[b].arg1[k].id
              /\ e.prediction # 0
              /\ bp[b].madeFor[e.prediction] = k
              /\ e.riskScore = bp[b].predictions[e.prediction].riskScore
              /\ e.predictedEvents = bp[b].predictions[e.prediction].predictedEvents

\* C26: the configured flag a POST /api/kumorfm/configure answer carries is
\* the flag the next GET /api/kumorfm/status answer carries and the state
\* the next GET /api/health answer reports, whatever the body held.
C26_ConfigureAgreesWithStatus ==
  [][(statusResp.from # "none" /\ statusResp'.from \in {"status", "health"})
       => statusResp'.configured = statusResp.configured]_vars

\* C27: an answered upload request that carried a file has left no
\* temporary file under uploads/, whether it was answered 200 (with or
\* without row errors) or 500.
C27_TemporaryFileIsDeleted ==
  \A u \in Uploads :
    (up[u].pc \in {"200", "500"} /\ up[u].file # NoFile) => ~up[u].tmpFile

Min(a, b) == IF a < b THEN a ELSE b

\* C28: the SSE alerts the dashboard has received, the (up to) ten newest of
\* them, are the head of its recent-alerts list, newest first, whatever data
\* fetch completed meanwhile, and the list holds at most 10 entries once an
\* SSE alert has been added.
C28_SseAlertsStayListed ==
  (dashboard.mounted /\ dashboard.received > 0) =>
    /\ Len(dashboard.recentAlerts) <= RecentKept + 1
    /\ \A k \in 1..Min(RecentKept + 1, dashboard.received) :
         /\ k <= Len(dashboard.recentAlerts)
         /\ dashboard.recentAlerts[k] = SseAlert(dashboard.received + 1 - k)

\* The request the page made last.
LatestRequest == [id |-> patientsPage.started, params |-> params(patientsPage.selectedGroup)]

\* C29: when the Patients page is not loading and shows no error, the list
\* it shows is the answer to the request made for the selected group, and
\* that request is not in flight any more.
C29_ListIsOfSelectedGroup ==
  (patientsPage.mounted /\ ~patientsPage.loading /\ ~patientsPage.error) =>
    /\ patientsPage.patients.params = params(patientsPage.selectedGroup)
    /\ LatestRequest \notin patientsPage.requests

\* C30: the alerts list holds at most 200 entries and is the (up to) 200
\* alerts added last since the last clearAlerts, newest first; after
\* clearAlerts it is empty.
C30_AlertsAreTheNewest ==
  /\ Len(alertsStore.alerts) = Min(AlertsKept, Len(alertsStore.added))
  /\ \A k \in 1..Len(alertsStore.alerts) :
       alertsStore.alerts[k] = alertsStore.added[Len(alertsStore.added) + 1 - k]
  /\ alertsStore.added = <<>> => alertsStore.alerts = <<>>

C30_Witness ==
  /\ Len(alertsStore.added) > AlertsKept
  /\ Len(alertsStore.alerts) = AlertsKept
  /\ alertsStore.calls > Len(alertsStore.added)

====
